---------------------------- MODULE Spec2Model ----------------------------
(***************************************************************************)
(* A model of wavfile.py: the RIFF/WAVE reader (WavFile, WavChunk and the  *)
(* specialised chunk classes) running on Python 3 over a seekable byte     *)
(* source.  Bytes are integers 0..255, byte strings are sequences of       *)
(* bytes, four-character tags are byte strings of length 4.                *)
(***************************************************************************)
EXTENDS Integers, Sequences, FiniteSets, TLC

VARIABLES
    src,        \* the bytes of the file handed to WavFile()
    pc,         \* "new", then "built" or "failed" as WavFile.__init__ ended;
                \* "hung" once a call on the container never returns;
                \* "closed" once the caller closed the container
    opened,     \* self._i_opened_the_file
    fopen,      \* self.file is open
    err,        \* the exception WavFile.__init__ raised ("none" when built)
    riffsize,   \* self._riff.chunksize
    fst,        \* [pos: position of self.file, sr: self._riff.size_read]
    chunklist,  \* self._chunklist: the chunk objects in arrival order
    chunks,     \* self.chunks: tag -> chunk object, or list of chunk objects
    log,        \* the warnings logged through log.warn
    res         \* the last operation on the container and its outcome (for a
                \* typed field, parsed tells whether __getattr__ ran _parse)

vars == <<src, pc, opened, fopen, err, riffsize, fst, chunklist, chunks, log,
         res>>

-----------------------------------------------------------------------------
(* Bounds of the model.                                                    *)

\* The most chunks a generated source file holds.
MaxChunks == 2

-----------------------------------------------------------------------------
(* Byte strings.                                                           *)

Min(a, b) == IF a < b THEN a ELSE b

Max(a, b) == IF a > b THEN a ELSE b

\* data[lo:hi] of Python: the bytes at 0-based offsets lo..hi-1, an index
\* below zero counting from the end, both clipped to the string.
Slice(data, lo, hi) ==
    LET clip(i) == IF i < 0 THEN Max(Len(data) + i, 0) ELSE Min(i, Len(data))
    IN  SubSeq(data, clip(lo) + 1, clip(hi))

\* struct.unpack_from(format, data, offset) for a format of n bytes: the n
\* bytes at offset (counted from the end when negative), or struct.error.
UnpackFrom(data, offset, n) ==
    LET off == IF offset < 0 THEN offset + Len(data) ELSE offset
    IN  IF off < 0 \/ Len(data) - off < n
        THEN [ok |-> FALSE, bytes |-> <<>>]
        ELSE [ok |-> TRUE, bytes |-> SubSeq(data, off + 1, off + n)]

\* struct.pack('<H'/'<h', v) and struct.pack('<L'/'<l', v)
LE16(v) == LET u == (v + 65536) % 65536 IN <<u % 256, u \div 256>>

LE32(v) ==
    LET hi == IF v < 0 THEN 256 + ((v - (v % 16777216)) \div 16777216)
                       ELSE v \div 16777216
        lo == v % 16777216
    IN  <<lo % 256, (lo \div 256) % 256, lo \div 65536, hi>>

\* struct.unpack('<h', b)[0] and struct.unpack('<l', b)[0] (signed)
UnpackH(b) == b[1] + 256 * (IF b[2] >= 128 THEN b[2] - 256 ELSE b[2])

UnpackL(b) ==
    b[1] + 256 * b[2] + 65536 * b[3]
         + 16777216 * (IF b[4] >= 128 THEN b[4] - 256 ELSE b[4])

\* struct.unpack('<L', b)[0] (unsigned; the sources generated here keep the
\* top bit of every size field clear)
UnpackUL(b) == b[1] + 256 * b[2] + 65536 * b[3] + 16777216 * b[4]

\* Four-character tags.
T_RIFF == <<82, 73, 70, 70>>
T_WAVE == <<87, 65, 86, 69>>
T_fmt  == <<102, 109, 116, 32>>
T_data == <<100, 97, 116, 97>>
T_smpl == <<115, 109, 112, 108>>
T_cue  == <<99, 117, 101, 32>>
T_fact == <<102, 97, 99, 116>>
T_inst == <<105, 110, 115, 116>>
T_plst == <<112, 108, 115, 116>>
T_wavl == <<119, 97, 118, 108>>
T_list == <<108, 105, 115, 116>>
T_LIST == <<76, 73, 83, 84>>
T_INFO == <<73, 78, 70, 79>>
T_adtl == <<97, 100, 116, 108>>
T_INAM == <<73, 78, 65, 77>>
T_xtra == <<120, 116, 114, 97>>

KNOWN_CHUNKS ==
    {T_cue, T_data, T_fact, T_fmt, T_inst, T_list, T_plst, T_smpl, T_wavl}

WAVE_FORMAT_PCM == 1

\* The class _chunk_registry gives a tag.
ChunkClass(tag) ==
    CASE tag = T_cue  -> "CueChunk"
      [] tag = T_fmt  -> "FmtChunk"
      [] tag = T_smpl -> "SmplChunk"
      [] tag = T_list -> "ListChunk"
      [] tag = T_LIST -> "ListChunk"
      [] OTHER        -> "WavChunk"

-----------------------------------------------------------------------------
(* The byte source and the outer RIFF chunk (an instance of the standard   *)
(* library's chunk.Chunk, align=True, through which every WavChunk reads). *)
(* A file state st is [pos |-> position of the file, sr |-> size_read of   *)
(* the RIFF chunk]; rs is the RIFF chunk's chunksize.                      *)

\* file.read(n) at position pos
FileRead(b, pos, n) ==
    LET got == IF pos >= Len(b) THEN 0 ELSE Min(n, Len(b) - pos)
    IN  [data |-> SubSeq(b, pos + 1, pos + got), pos |-> pos + got]

\* The end of chunk.Chunk.read: after the bytes got, the pad byte is read
\* (result pad) when the read reached the end of an odd-sized chunk.
ReadAligned(st, got, pad) ==
    [data |-> got.data,
     st   |-> [pos |-> pad.pos, sr |-> st.sr + Len(got.data) + Len(pad.data)]]

RiffReadPad(b, rs, st, got) ==
    ReadAligned(st, got,
                IF st.sr + Len(got.data) = rs /\ rs % 2 = 1
                THEN FileRead(b, got.pos, 1)
                ELSE [data |-> <<>>, pos |-> got.pos])

\* self._riff.read(n); n < 0 reads to the end of the RIFF chunk
RiffRead(b, rs, st, n) ==
    IF st.sr >= rs
    THEN [data |-> <<>>, st |-> st]
    ELSE RiffReadPad(b, rs, st,
                     FileRead(b, st.pos,
                              IF n < 0 \/ n > rs - st.sr THEN rs - st.sr ELSE n))

\* self._riff.seek(p, whence): RuntimeError outside 0..chunksize
RiffSeek(rs, st, p, whence) ==
    LET q == IF whence = 1 THEN p + st.sr ELSE p
    IN  IF q < 0 \/ q > rs
        THEN [ok |-> FALSE, st |-> st]
        ELSE [ok |-> TRUE, st |-> [pos |-> 8 + q, sr |-> q]]

-----------------------------------------------------------------------------
(* WavChunk: the chunk objects.  A chunk object is a record                *)
(*   name, chunksize, offset, size_read : as in chunk.Chunk                *)
(*   loaded, data : self._data (loaded = FALSE stands for None)            *)
(*   dict : the instance attributes _parse has stored, by attribute name.  *)

NoDict == [k \in {} |-> 0]

\* WavChunk.__init__(file, name) from the size field on: s is the result of
\* file.read(4).  A short read raises EOFError (eof = TRUE).
WavChunk_init(name, s) ==
    IF Len(s.data) # 4
    THEN [eof |-> TRUE, st |-> s.st]
    ELSE [eof |-> FALSE, st |-> s.st,
          chunk |-> [name      |-> name,
                     chunksize |-> UnpackUL(s.data),
                     offset    |-> s.st.sr,
                     size_read |-> 0,
                     loaded    |-> FALSE,
                     data      |-> <<>>,
                     dict      |-> NoDict]]

\* chunk_factory(file) after fourcc = file.read(4), whose result is t
ChunkOfTag(b, rs, t) ==
    IF Len(t.data) < 4
    THEN [eof |-> TRUE, st |-> t.st]
    ELSE WavChunk_init(t.data, RiffRead(b, rs, t.st, 4))

\* chunk_factory(file)
chunk_factory(b, rs, st) == ChunkOfTag(b, rs, RiffRead(b, rs, st, 4))

\* The bytes chunk.skip() seeks over: the unread payload and the pad byte.
SkipLength(c) ==
    (c.chunksize - c.size_read) + (IF c.chunksize % 2 = 1 THEN 1 ELSE 0)

\* chunk.read() after data = self.file.read(size), whose result is got: the
\* pad byte is read (result pad) at the end of an odd-sized payload.
ChunkPadded(c, got, pad) ==
    [data |-> got.data, st |-> pad.st,
     size_read |-> c.size_read + Len(got.data) + Len(pad.data)]

ChunkReadPad(b, rs, c, got) ==
    ChunkPadded(c, got,
                IF c.size_read + Len(got.data) = c.chunksize /\ c.chunksize % 2 = 1
                THEN RiffRead(b, rs, got.st, 1)
                ELSE [data |-> <<>>, st |-> got.st])

\* chunk.read(): what is left of the payload, then the pad byte
ChunkRead(b, rs, st, c) ==
    IF c.size_read >= c.chunksize
    THEN [data |-> <<>>, st |-> st, size_read |-> c.size_read]
    ELSE ChunkReadPad(b, rs, c, RiffRead(b, rs, st, c.chunksize - c.size_read))

\* The data property after self.seek(0), whose result is sk, and
\* self.read(), whose result is rd.  ok = FALSE: the seek raised
\* RuntimeError.
ChunkLoad(st, c, sk, rd) ==
    IF ~sk.ok
    THEN [ok |-> FALSE, st |-> st, chunk |-> c]
    ELSE [ok |-> TRUE, st |-> rd.st,
          chunk |-> [c EXCEPT !.size_read = rd.size_read,
                              !.loaded = TRUE, !.data = rd.data]]

ChunkSeekRead(b, rs, st, c, sk) ==
    ChunkLoad(st, c, sk, ChunkRead(b, rs, sk.st, [c EXCEPT !.size_read = 0]))

\* The data property: the first use seeks to the payload and reads it.
ChunkData(b, rs, st, c) ==
    IF c.loaded
    THEN [ok |-> TRUE, st |-> st, chunk |-> c]
    ELSE ChunkSeekRead(b, rs, st, c, RiffSeek(rs, st, c.offset, 0))

\* The size property
ChunkSize(c) == IF ~c.loaded THEN c.chunksize ELSE Len(c.data)

-----------------------------------------------------------------------------
(* WavFile.__init__                                                        *)

Warning(kind, tag) == [kind |-> kind, tag |-> tag]

\* The lookup by tag had a later chunk of a known tag replaced the earlier one.
StoreChunkLast(cs, name, i) ==
    [t \in DOMAIN cs \cup {name} |->
        IF t = name
        THEN IF name \in KNOWN_CHUNKS
             THEN [kind |-> "chunk", items |-> <<i>>]
             ELSE [kind  |-> "list",
                   items |-> IF name \in DOMAIN cs
                             THEN Append(cs[name].items, i) ELSE <<i>>]
        ELSE cs[t]]

\* The lookup by tag after one more chunk, the object at index i of the
\* chunk list: a known tag keeps its first chunk, any other tag collects a
\* list.
StoreChunk(cs, name, i) ==
    IF name \in KNOWN_CHUNKS
    THEN IF name \in DOMAIN cs
         THEN cs
         ELSE [t \in DOMAIN cs \cup {name} |->
                  IF t = name THEN [kind |-> "chunk", items |-> <<i>>] ELSE cs[t]]
    ELSE [t \in DOMAIN cs \cup {name} |->
             IF t = name
             THEN [kind  |-> "list",
                   items |-> IF name \in DOMAIN cs
                             THEN Append(cs[name].items, i) ELSE <<i>>]
             ELSE cs[t]]

\* The warnings one chunk adds to the log.
ChunkWarnings(cs, name) ==
    (IF name = T_data /\ T_fmt \notin DOMAIN cs
     THEN <<Warning("data before fmt", name)>> ELSE <<>>)
    \o (IF name \in KNOWN_CHUNKS /\ name \in DOMAIN cs
        THEN <<Warning("ignoring extra", name)>> ELSE <<>>)

\* The test had it asked for the 'fmt ' chunk alone.
RequiredMissingFmt(cs) == T_fmt \notin DOMAIN cs

\* The test that ends the constructor.
RequiredMissing(cs) == T_fmt \notin DOMAIN cs \/ T_data \notin DOMAIN cs

\* One pass of the scan loop for the chunk c the factory gave: the warnings,
\* the lookup, the chunk list, then chunk.skip(), whose seek gave sk and
\* raises RuntimeError past the end of the RIFF chunk.
ScanStore(acc, c, sk) ==
    [st        |-> sk.st,
     chunklist |-> Append(acc.chunklist,
                          IF sk.ok THEN [c EXCEPT !.size_read = @ + SkipLength(c)]
                                   ELSE c),
     chunks    |-> StoreChunk(acc.chunks, c.name, Len(acc.chunklist) + 1),
     log       |-> acc.log \o ChunkWarnings(acc.chunks, c.name),
     raised    |-> IF sk.ok THEN "none" ELSE "RuntimeError"]

\* The scan loop: acc is [st, chunklist, chunks, log, raised].
RECURSIVE ScanChunks(_, _, _)
ScanNext(b, rs, acc) ==
    IF acc.raised = "none" THEN ScanChunks(b, rs, acc) ELSE acc

ScanChunk(b, rs, acc, f) ==
    IF f.eof
    THEN [acc EXCEPT !.st = f.st]
    ELSE ScanNext(b, rs,
                  ScanStore(acc, f.chunk, RiffSeek(rs, f.st, SkipLength(f.chunk), 1)))

ScanChunks(b, rs, acc) == ScanChunk(b, rs, acc, chunk_factory(b, rs, acc.st))

NoChunks == [t \in {} |-> 0]

\* The end of WavFile.__init__: scan is the state the loop left.
WavFile_check(rs, scan) ==
    [pc        |-> IF scan.raised = "none" /\ ~RequiredMissing(scan.chunks)
                   THEN "built" ELSE "failed",
     err       |-> IF scan.raised # "none" THEN scan.raised
                   ELSE IF RequiredMissing(scan.chunks) THEN "ParseError"
                   ELSE "none",
     riffsize  |-> rs,
     st        |-> scan.st,
     chunklist |-> scan.chunklist,
     chunks    |-> scan.chunks,
     log       |-> scan.log]

\* WavFile.__init__ leaving by an exception before the scan
WavFile_fail(e, rs, st) ==
    [pc |-> "failed", err |-> e, riffsize |-> rs, st |-> st,
     chunklist |-> <<>>, chunks |-> NoChunks, log |-> <<>>]

\* WavFile.__init__ after self._riff.read(4), whose result is form
WavFile_scan(b, rs, form) ==
    IF form.data # T_WAVE
    THEN WavFile_fail("Error", rs, form.st)
    ELSE WavFile_check(rs, ScanChunks(b, rs,
             [st |-> form.st, chunklist |-> <<>>, chunks |-> NoChunks,
              log |-> <<>>, raised |-> "none"]))

\* WavFile(file): the outer header (tag and size are the two reads of
\* chunk.Chunk.__init__), the scan, the required chunks.
WavFile_riff(b, tag, size) ==
    IF Len(tag.data) < 4 \/ Len(size.data) # 4 \/ tag.data # T_RIFF
    THEN WavFile_fail("ParseError", 0, [pos |-> size.pos, sr |-> 0])
    ELSE WavFile_scan(b, UnpackUL(size.data),
                      RiffRead(b, UnpackUL(size.data), [pos |-> size.pos, sr |-> 0], 4))

WavFile_init(b) ==
    WavFile_riff(b, FileRead(b, 0, 4), FileRead(b, Min(4, Len(b)), 4))

-----------------------------------------------------------------------------
(* Source files.  The byte layouts are the ones the pack formats of the    *)
(* chunk classes read.                                                     *)

\* One chunk on disk: tag, size, payload, pad byte after an odd payload.
Chunk(tag, payload) ==
    tag \o LE32(Len(payload)) \o payload
        \o (IF Len(payload) % 2 = 1 THEN <<0>> ELSE <<>>)

\* A RIFF/WAVE file around the chunks of body.
Riff(body) == T_RIFF \o LE32(4 + Len(body)) \o T_WAVE \o body

\* '<hhllh' and, for PCM, the '<h' that follows it
FmtPayload(tag, channels, rate, bits) ==
    LE16(tag) \o LE16(channels) \o LE32(rate)
        \o LE32(rate * channels * ((bits + 7) \div 8))
        \o LE16(channels * ((bits + 7) \div 8)) \o LE16(bits)

\* '<9l' with sample_loops = n and midi_unity_note = note
SmplHeader(note, n) ==
    LE32(0) \o LE32(0) \o LE32(22675) \o LE32(note) \o LE32(0)
        \o LE32(0) \o LE32(0) \o LE32(n) \o LE32(0)

\* '<6l': cue_point_id, type, start, end, fraction, play_count
LoopRecord(id, type, start, end) ==
    LE32(id) \o LE32(type) \o LE32(start) \o LE32(end) \o LE32(0) \o LE32(0)

\* '<4s' and the sub-chunks
ListPayload(type_id, subs) == type_id \o subs

FmtPcm16   == Chunk(T_fmt, FmtPayload(WAVE_FORMAT_PCM, 2, 44100, 16))
FmtPcm8    == Chunk(T_fmt, FmtPayload(WAVE_FORMAT_PCM, 1, 8000, 8))
Data4      == Chunk(T_data, <<1, 2, 3, 4>>)
Data3      == Chunk(T_data, <<5, 6, 7>>)
Smpl0      == Chunk(T_smpl, SmplHeader(60, 0))
Smpl2      == Chunk(T_smpl, SmplHeader(60, 2) \o LoopRecord(1, 0, 10, 20)
                                              \o LoopRecord(2, 1, 30, 40))
ListInfoUC == Chunk(T_LIST, ListPayload(T_INFO, Chunk(T_INAM, <<97, 98, 0>>)))
ListInfoLC == Chunk(T_list, ListPayload(T_INFO, Chunk(T_INAM, <<99, 0>>)))
ListAdtl   == Chunk(T_LIST, ListPayload(T_adtl, <<>>))
Xtra       == Chunk(T_xtra, <<9>>)
Cue0       == Chunk(T_cue, LE32(0))
Cue1       == Chunk(T_cue, LE32(1) \o LoopRecord(1, 5, 0, 0))
Fact4      == Chunk(T_fact, LE32(4))
Fact3      == Chunk(T_fact, LE32(3))
Inst7      == Chunk(T_inst, <<60, 0, 0, 0, 127, 1, 127>>)
Inst6      == Chunk(T_inst, <<61, 0, 0, 0, 127, 1>>)
Plst0      == Chunk(T_plst, LE32(0))
Plst1      == Chunk(T_plst, LE32(1) \o LE32(1) \o LE32(8) \o LE32(1))

ListAdtlLC == Chunk(T_list, ListPayload(T_adtl, <<>>))
Wavl4      == Chunk(T_wavl, <<1, 2, 3, 4>>)
Wavl2      == Chunk(T_wavl, <<1, 2>>)
Xtra2      == Chunk(T_xtra, <<8, 7>>)

\* Format descriptors: 12-bit mono PCM, PCM with no channel, IMA ADPCM
FmtPcm12   == Chunk(T_fmt, FmtPayload(WAVE_FORMAT_PCM, 1, 8000, 12))
FmtPcm0    == Chunk(T_fmt, FmtPayload(WAVE_FORMAT_PCM, 0, 8000, 8))
FmtAdpcm   == Chunk(T_fmt, FmtPayload(17, 1, 8000, 4))

\* Payloads shorter than the layout of their class: a PCM 'fmt ' without
\* bits_per_sample, a 'fmt ' of 10 bytes, a 'smpl' declaring two loops with
\* one record, one loop with no record, a 'smpl' of 20 bytes, a 'LIST' of 2
\* bytes, a 'LIST' that ends inside a sub-chunk's size field; and a 'LIST'
\* whose sub-chunk declares the size -8.
Fmt14      == Chunk(T_fmt, SubSeq(FmtPayload(WAVE_FORMAT_PCM, 2, 44100, 16), 1, 14))
Fmt10      == Chunk(T_fmt, SubSeq(FmtPayload(WAVE_FORMAT_PCM, 2, 44100, 16), 1, 10))
Smpl2of1   == Chunk(T_smpl, SmplHeader(60, 2) \o LoopRecord(1, 0, 10, 20))
Smpl1of0   == Chunk(T_smpl, SmplHeader(60, 1))
Smpl20     == Chunk(T_smpl, SubSeq(SmplHeader(60, 0), 1, 20))
List2      == Chunk(T_LIST, <<73, 78>>)
ListCut    == Chunk(T_LIST, ListPayload(T_INFO, T_INAM \o <<2, 0>>))
ListBack   == Chunk(T_LIST, ListPayload(T_adtl, T_INAM \o LE32(-8)))

-----------------------------------------------------------------------------
(* Deferred parsing: the _parse methods.  Each takes the payload (self.data) *)
(* and gives [err, dict]: the exception that ended it ("none" when it      *)
(* returned) and the attributes it had stored in self.__dict__ by then.    *)

\* dict.update
Update(d, e) ==
    [k \in DOMAIN d \cup DOMAIN e |-> IF k \in DOMAIN e THEN e[k] ELSE d[k]]

\* The little-endian signed field of w bytes at offset off.
Field(data, off, w) ==
    IF w = 2 THEN UnpackH(SubSeq(data, off + 1, off + 2))
             ELSE UnpackL(SubSeq(data, off + 1, off + 4))

\* struct.calcsize of '<hhllh', '<9l', '<6l', '<4s', '<l'
FmtSize  == 14
SmplSize == 36
LoopSize == 24
ListSize == 4
CueSize  == 4

\* WavChunk._parse for a chunk class with no fields of its own
WavChunk_parse(data) == [err |-> "none", dict |-> NoDict]

\* '<hhllh'
FmtBase(data) ==
    [format_tag        |-> Field(data, 0, 2),
     channels          |-> Field(data, 2, 2),
     samples_per_sec   |-> Field(data, 4, 4),
     avg_bytes_per_sec |-> Field(data, 8, 4),
     block_align       |-> Field(data, 12, 2)]

\* FmtChunk._parse after WavChunk._parse stored base: bits is data[14:16]
FmtBits(base, bits) ==
    IF base.format_tag = WAVE_FORMAT_PCM
    THEN IF Len(bits) # 2
         THEN [err |-> "struct.error", dict |-> base]
         ELSE [err |-> "none",
               dict |-> Update(base, [bits_per_sample |-> UnpackH(bits),
                                      compressed |-> FALSE])]
    ELSE [err |-> "none", dict |-> Update(base, [compressed |-> TRUE])]

\* FmtChunk._parse
FmtChunk_parse(data) ==
    IF ~UnpackFrom(data, 0, FmtSize).ok
    THEN [err |-> "ParseError", dict |-> NoDict]
    ELSE FmtBits(FmtBase(data), Slice(data, 14, 16))

\* '<9l'
SmplBase(data) ==
    [manufacturer        |-> Field(data, 0, 4),
     product             |-> Field(data, 4, 4),
     sample_period       |-> Field(data, 8, 4),
     midi_unity_note     |-> Field(data, 12, 4),
     midi_pitch_fraction |-> Field(data, 16, 4),
     smpte_format        |-> Field(data, 20, 4),
     smpte_offset        |-> Field(data, 24, 4),
     sample_loops        |-> Field(data, 28, 4),
     sampler_data        |-> Field(data, 32, 4)]

\* The loop record _unpack_to_dict reads at offset off.
LoopAt(data, off) ==
    [cue_point_id |-> Field(data, off, 4),
     type         |-> Field(data, off + 4, 4),
     start        |-> Field(data, off + 8, 4),
     end          |-> Field(data, off + 12, 4),
     fraction     |-> Field(data, off + 16, 4),
     play_count   |-> Field(data, off + 20, 4)]

\* The offset at which SmplChunk._parse reads loop record i (0-based).
LoopOffset(i) == SmplSize

\* SmplChunk._parse after WavChunk._parse stored base: the loop over
\* range(self.sample_loops), ended by the first record that cannot be read.
SmplLoops(data, base) ==
    LET n    == Max(base.sample_loops, 0)
        bad  == {i \in 0..(n - 1) : ~UnpackFrom(data, LoopOffset(i), LoopSize).ok}
        stop == IF bad = {} THEN n ELSE CHOOSE i \in bad : \A j \in bad : i <= j
    IN  [err  |-> IF bad = {} THEN "none" ELSE "struct.error",
         dict |-> Update(base,
                    [loops |-> [i \in 1..stop |-> LoopAt(data, LoopOffset(i - 1))]])]

\* SmplChunk._parse
SmplChunk_parse(data) ==
    IF ~UnpackFrom(data, 0, SmplSize).ok
    THEN [err |-> "ParseError", dict |-> NoDict]
    ELSE SmplLoops(data, SmplBase(data))

\* ListChunk._parse: the loop over the sub-chunks from position pos with the
\* sub-chunks subs found so far; seen holds the positions the loop has been
\* at: the loop never ends once it comes to one of them again.
RECURSIVE ListSubchunks(_, _, _, _)
ListSubchunk(data, pos, subs, seen, size) ==
    ListSubchunks(data, pos + 8 + size + (IF size % 2 = 1 THEN 1 ELSE 0),
                  Append(subs, <<Slice(data, pos, pos + 4),
                                 Slice(data, pos + 8, pos + 8 + size)>>),
                  seen \cup {pos})

ListSubchunks(data, pos, subs, seen) ==
    IF ~(pos < Len(data))
    THEN [err |-> "none", subchunks |-> subs]
    ELSE IF pos \in seen
    THEN [err |-> "never returns", subchunks |-> subs]
    ELSE IF ~UnpackFrom(data, pos + 4, 4).ok
    THEN [err |-> "struct.error", subchunks |-> subs]
    ELSE ListSubchunk(data, pos, subs, seen, UnpackL(UnpackFrom(data, pos + 4, 4).bytes))

\* ListChunk._parse after WavChunk._parse stored type_id
ListDict(data, scan) ==
    [err  |-> scan.err,
     dict |-> [type_id |-> SubSeq(data, 1, 4), subchunks |-> scan.subchunks]]

\* ListChunk._parse
ListChunk_parse(data) ==
    IF ~UnpackFrom(data, 0, ListSize).ok
    THEN [err |-> "ParseError", dict |-> NoDict]
    ELSE ListDict(data, ListSubchunks(data, ListSize, <<>>, {}))

\* CueChunk._parse: _fieldnames is the string 'num_cue_points', whose first
\* letter names the one unpacked value; self.num_cue_points is never stored,
\* and reading it raises AttributeError.
CueChunk_parse(data) ==
    IF ~UnpackFrom(data, 0, CueSize).ok
    THEN [err |-> "ParseError", dict |-> NoDict]
    ELSE [err  |-> "AttributeError",
          dict |-> [n |-> Field(data, 0, 4), cue_points |-> <<>>]]

\* self._parse() by the chunk's class
Parse(class, data) ==
    CASE class = "FmtChunk"  -> FmtChunk_parse(data)
      [] class = "SmplChunk" -> SmplChunk_parse(data)
      [] class = "ListChunk" -> ListChunk_parse(data)
      [] class = "CueChunk"  -> CueChunk_parse(data)
      [] OTHER               -> WavChunk_parse(data)

\* self.__dict__[name], or AttributeError
Lookup(c, st, name) ==
    IF name \in DOMAIN c.dict
    THEN [chunk |-> c, st |-> st, err |-> "none", val |-> c.dict[name]]
    ELSE [chunk |-> c, st |-> st, err |-> "AttributeError", val |-> 0]

\* __getattr__ after self._parse(), which gave p for the chunk c with its
\* payload loaded
Parsed(c, st, name, p) ==
    IF p.err # "none"
    THEN [chunk |-> [c EXCEPT !.dict = Update(@, p.dict)], st |-> st,
          err |-> p.err, val |-> 0]
    ELSE Lookup([c EXCEPT !.dict = Update(@, p.dict)], st, name)

\* __getattr__ with self._data None: rd is the result of self.data
ParseNow(c, st, name, rd) ==
    IF ~rd.ok
    THEN [chunk |-> c, st |-> st, err |-> "RuntimeError", val |-> 0]
    ELSE Parsed(rd.chunk, rd.st, name, Parse(ChunkClass(c.name), rd.chunk.data))

\* chunk.<name> for an attribute the classes do not define: __dict__ first,
\* then __getattr__, which parses only while self._data is None.  Gives the
\* chunk object afterwards, the file state, the exception and the value.
GetAttr(b, rs, st, c, name) ==
    IF name \in DOMAIN c.dict \/ c.loaded
    THEN Lookup(c, st, name)
    ELSE ParseNow(c, st, name, ChunkData(b, rs, st, c))

\* The sample width had the bits been divided without rounding up.
WidthFloor(bits) == bits \div 8

\* (self.bits_per_sample + 7) // 8
WidthOfBits(bits) == (bits + 7) \div 8

\* FmtChunk.sample_width once self.bits_per_sample gave g
SampleWidthBits(g) ==
    IF g.err # "none" THEN g ELSE [g EXCEPT !.val = WidthOfBits(g.val)]

\* FmtChunk.sample_width once self.format_tag gave t
SampleWidthTag(b, rs, t) ==
    IF t.err # "none" THEN t
    ELSE IF t.val = WAVE_FORMAT_PCM
    THEN SampleWidthBits(GetAttr(b, rs, t.st, t.chunk, "bits_per_sample"))
    ELSE [t EXCEPT !.err = "UnsupportedCompressionError", !.val = 0]

\* FmtChunk.sample_width.  (An AttributeError raised inside a property makes
\* Python call __getattr__ with the property's name; the payload is loaded
\* by then, so that call raises AttributeError too.)
sample_width(b, rs, st, c) ==
    SampleWidthTag(b, rs, GetAttr(b, rs, st, c, "format_tag"))

\* FmtChunk.frame_size once self.channels gave ch and self.sample_width w
FrameSizeWidth(ch, w) ==
    IF w.err # "none" THEN w ELSE [w EXCEPT !.val = ch.val * w.val]

FrameSizeChannels(b, rs, ch) ==
    IF ch.err # "none" THEN ch
    ELSE FrameSizeWidth(ch, sample_width(b, rs, ch.st, ch.chunk))

\* FmtChunk.frame_size
frame_size(b, rs, st, c) ==
    FrameSizeChannels(b, rs, GetAttr(b, rs, st, c, "channels"))

\* The loop of raw_frames from pos on, for fs > 0
RECURSIVE Frames(_, _, _)
Frames(data, fs, pos) ==
    IF pos <= Len(data) - fs
    THEN <<Slice(data, pos, pos + fs)>> \o Frames(data, fs, pos + fs)
    ELSE <<>>

\* raw_frames once self.fmt.frame_size gave f: with fs <= 0 the condition
\* pos <= size - fs holds for ever
RawFramesLoop(cl, di, fi, d, f) ==
    [st        |-> f.st,
     chunklist |-> [cl EXCEPT ![di] = d.chunk, ![fi] = f.chunk],
     err       |-> IF f.err # "none" THEN f.err
                   ELSE IF f.val <= 0 THEN "never returns" ELSE "none",
     val       |-> IF f.err = "none" /\ f.val > 0
                   THEN Frames(d.chunk.data, f.val, 0) ELSE <<>>]

\* raw_frames once self.chunks[b'data'].data gave d
RawFramesData(b, rs, cl, di, fi, d) ==
    IF ~d.ok
    THEN [st |-> d.st, chunklist |-> [cl EXCEPT ![di] = d.chunk],
          err |-> "RuntimeError", val |-> <<>>]
    ELSE RawFramesLoop(cl, di, fi, d, frame_size(b, rs, d.st, cl[fi]))

\* list(wav.raw_frames())
raw_frames(b, rs, st, cl, cs) ==
    RawFramesData(b, rs, cl, cs[T_data].items[1], cs[T_fmt].items[1],
                  ChunkData(b, rs, st, cl[cs[T_data].items[1]]))

\* WavFile.cue_points: self.chunks[b'cue '].loops, or [] on KeyError
cue_points(b, rs, st, cl, cs) ==
    IF T_cue \notin DOMAIN cs
    THEN [chunk |-> 0, st |-> st, err |-> "none", val |-> <<>>]
    ELSE GetAttr(b, rs, st, cl[cs[T_cue].items[1]], "loops")

\* The operand __str__ adds after the packed chunk: the literal '\0' or '',
\* which on Python 3 is a str.
PadOperand(n) ==
    [type |-> "str", val |-> IF n % 2 = 1 THEN <<0>> ELSE <<>>]

\* bytes + x: TypeError unless x is bytes too
BytesAdd(packed, x) ==
    IF x.type = "bytes"
    THEN [err |-> "none", val |-> packed \o x.val]
    ELSE [err |-> "TypeError", val |-> <<>>]

\* struct.pack('<4sL%is' % len(data), name, len(data), data)
PackChunk(name, data) == name \o LE32(Len(data)) \o data

\* WavChunk.__str__ after len(self.data), whose result is rd, and the sum,
\* whose result is sum
ChunkPack(c, st, rd, sum) ==
    IF ~rd.ok
    THEN [chunk |-> c, st |-> st, err |-> "RuntimeError", val |-> <<>>]
    ELSE [chunk |-> rd.chunk, st |-> rd.st, err |-> sum.err, val |-> sum.val]

ChunkPacked(c, st, rd) ==
    ChunkPack(c, st, rd,
              BytesAdd(PackChunk(c.name, rd.chunk.data),
                       PadOperand(Len(rd.chunk.data))))

\* str(chunk)
ChunkStr(b, rs, st, c) == ChunkPacked(c, st, ChunkData(b, rs, st, c))

-----------------------------------------------------------------------------
(* WavFile.__iter__, run to its end or to the exception that ends it.  A   *)
(* run is [st, chunklist, out, err]: out holds the indices into the chunk  *)
(* list of the chunks yielded so far.                                      *)

\* The run after chunk.type_id gave g for the chunk at index i
TypeRead(run, i, g) ==
    [run EXCEPT !.st = g.st, !.chunklist[i] = g.chunk, !.err = g.err]

\* The run after the chunk at index i is yielded (when yes)
Yield(run, i, yes) == IF yes THEN [run EXCEPT !.out = Append(@, i)] ELSE run

\* for chunk in self.chunks.get(b'LIST', []): the INFO lists, from the k-th
RECURSIVE IterInfo(_, _, _, _, _)
IterInfoChunk(b, rs, run, items, k, g) ==
    IF g.err # "none"
    THEN TypeRead(run, items[k], g)
    ELSE IterInfo(b, rs, Yield(TypeRead(run, items[k], g), items[k], g.val = T_INFO),
                  items, k + 1)

IterInfo(b, rs, run, items, k) ==
    IF k > Len(items)
    THEN run
    ELSE IterInfoChunk(b, rs, run, items, k,
                       GetAttr(b, rs, run.st, run.chunklist[items[k]], "type_id"))

\* for chunk in self._chunklist: the rest, from index i
RECURSIVE IterRest(_, _, _, _)
IterRestList(b, rs, run, i, g) ==
    IF g.err # "none"
    THEN TypeRead(run, i, g)
    ELSE IterRest(b, rs, Yield(TypeRead(run, i, g), i, g.val # T_INFO), i + 1)

IterRest(b, rs, run, i) ==
    IF i > Len(run.chunklist) THEN run
    ELSE IF run.chunklist[i].name = T_fmt THEN IterRest(b, rs, run, i + 1)
    ELSE IF run.chunklist[i].name # T_LIST
    THEN IterRest(b, rs, Yield(run, i, TRUE), i + 1)
    ELSE IterRestList(b, rs, run, i,
                      GetAttr(b, rs, run.st, run.chunklist[i], "type_id"))

\* The second loop starts when the first ended without an exception.
IterThen(b, rs, run) == IF run.err # "none" THEN run ELSE IterRest(b, rs, run, 1)

\* The run had the iterator started with the first loop, yielding nothing
\* before it.
IterStartEmpty(st, cl, cs) ==
    [st |-> st, chunklist |-> cl, out |-> <<>>, err |-> "none"]

\* yield self.chunks[b'fmt ']: the run as the first loop finds it
IterStart(st, cl, cs) ==
    [st |-> st, chunklist |-> cl, out |-> <<cs[T_fmt].items[1]>>, err |-> "none"]

\* list(wav)
WavFile_iter(b, rs, st, cl, cs) ==
    IterThen(b, rs,
             IterInfo(b, rs, IterStart(st, cl, cs),
                      IF T_LIST \in DOMAIN cs THEN cs[T_LIST].items ELSE <<>>, 1))

\* WavFile.__str__: b"".join(str(chunk) for chunk in self) asks the iterator
\* for its first chunk, the 'fmt ' chunk, and str() of it (result s) raises.
JoinFirst(cl, i, s) ==
    [st |-> s.st, chunklist |-> [cl EXCEPT ![i] = s.chunk], err |-> s.err,
     val |-> <<>>]

WavFile_str(b, rs, st, cl, cs) ==
    JoinFirst(cl, cs[T_fmt].items[1],
              ChunkStr(b, rs, st, cl[cs[T_fmt].items[1]]))

-----------------------------------------------------------------------------
(* The source files a behaviour starts from.                               *)

RECURSIVE Concat(_)
Concat(ss) == IF ss = <<>> THEN <<>> ELSE Head(ss) \o Concat(Tail(ss))

ChunkKinds ==
    {FmtPcm16, FmtPcm8, Data4, Data3, Smpl2, ListInfoUC, ListInfoLC, ListAdtl, Xtra}

\* Files of up to MaxChunks chunks
WholeFiles ==
    {Riff(Concat(ks)) : ks \in UNION {[1..n -> ChunkKinds] : n \in 0..MaxChunks}}

\* The arrival orders that set the INFO lists and the 'fmt ' chunk apart
ExampleFiles ==
    {Riff(Concat(ks)) : ks \in {<<Data4, Smpl2, FmtPcm16, ListInfoUC>>,
                                <<Data4, ListInfoLC, FmtPcm16, ListInfoUC>>,
                                <<FmtPcm16, Data3, ListInfoLC>>}}

\* Files that repeat a tag of KNOWN_CHUNKS
DuplicateFiles ==
    {Riff(Concat(ks)) : ks \in {<<FmtPcm8, Data4, FmtPcm16>>,
                                <<FmtPcm8, FmtPcm16, Data4, FmtPcm16>>,
                                <<FmtPcm16, Data3, Data4, Data3>>}}
    \cup {Riff(Concat(<<FmtPcm16, Data4, p[1], p[2], p[1]>>)) :
             p \in {<<Smpl0, Smpl2>>, <<Cue1, Cue0>>, <<Fact4, Fact3>>,
                    <<Inst7, Inst6>>, <<Plst0, Plst1>>}}

\* Files that repeat a tag the specification does not call singular
RepeatFiles ==
    {Riff(Concat(<<FmtPcm16, Data4, p[1], p[2]>>)) :
        p \in {<<ListInfoLC, ListAdtlLC>>, <<Wavl4, Wavl2>>,
               <<ListInfoUC, ListAdtl>>, <<Xtra, Xtra2>>}}

\* Files of several format descriptors
FormatFiles ==
    {Riff(Concat(ks)) : ks \in {<<FmtPcm12, Data3>>, <<FmtPcm0, Data4>>,
                                <<FmtAdpcm, Data4>>}}

\* Files with a payload shorter than its layout
MalformedFiles ==
    {Riff(Concat(ks)) : ks \in {<<Fmt14, Data4>>, <<Fmt10, Data4>>,
                                <<FmtPcm16, Data4, Smpl2of1>>,
                                <<FmtPcm16, Data4, Smpl1of0>>,
                                <<FmtPcm16, Data4, Smpl20>>,
                                <<FmtPcm16, Data4, List2>>,
                                <<FmtPcm16, Data4, ListCut>>,
                                <<FmtPcm16, Data4, ListBack>>}}

\* A file cut short at every length
TruncBase == Riff(FmtPcm16 \o Data3 \o Xtra)

TruncatedFiles == {SubSeq(TruncBase, 1, n) : n \in 0..(Len(TruncBase) - 1)}

\* Files whose RIFF size field is off by d
RiffSized(body, d) == T_RIFF \o LE32(4 + Len(body) + d) \o T_WAVE \o body

SizedFiles == {RiffSized(FmtPcm16 \o Data3, d) : d \in {-1, 1}}

\* A file of another form type
OtherForm == T_RIFF \o LE32(4) \o <<65, 86, 73, 32>>

WellFormedFiles ==
    WholeFiles \cup ExampleFiles \cup DuplicateFiles \cup RepeatFiles
        \cup FormatFiles

\* The sources that are also handed to WavFile() as an open file object;
\* every source is handed in by its file name.
FileObjects == ExampleFiles \cup SizedFiles \cup {OtherForm}

Sources ==
    WellFormedFiles \cup MalformedFiles \cup TruncatedFiles \cup SizedFiles
        \cup {OtherForm}

-----------------------------------------------------------------------------
(* The state machine.                                                      *)

\* The attribute names a caller asks a chunk of each class for.
AttrNames(class) ==
    CASE class = "FmtChunk"  -> {"format_tag", "channels", "bits_per_sample"}
      [] class = "SmplChunk" -> {"midi_unity_note", "sample_loops", "loops"}
      [] class = "ListChunk" -> {"type_id", "subchunks"}
      [] class = "CueChunk"  -> {"num_cue_points", "cue_points"}
      [] OTHER               -> {}

Init ==
    /\ src \in Sources
    /\ pc = "new"
    /\ opened = FALSE
    /\ fopen = FALSE
    /\ err = "none"
    /\ riffsize = 0
    /\ fst = [pos |-> 0, sr |-> 0]
    /\ chunklist = <<>>
    /\ chunks = NoChunks
    /\ log = <<>>
    /\ res = [op |-> "none"]

\* wav = WavFile(wavfile): bypath tells a file name, which the constructor
\* opens itself, from an open file object.  The constructor has no handler
\* that closes the file when it raises.
Open(bypath) ==
    /\ pc = "new"
    /\ opened' = bypath
    /\ fopen' = TRUE
    /\ \E w \in {WavFile_init(src)} :
           /\ pc' = w.pc
           /\ err' = w.err
           /\ riffsize' = w.riffsize
           /\ fst' = w.st
           /\ chunklist' = w.chunklist
           /\ chunks' = w.chunks
           /\ log' = w.log
    /\ res' = [op |-> "open"]
    /\ UNCHANGED src

\* chunk.data
Data(i) ==
    /\ pc = "built"
    /\ \E d \in {ChunkData(src, riffsize, fst, chunklist[i])} :
           /\ fst' = d.st
           /\ chunklist' = [chunklist EXCEPT ![i] = d.chunk]
           /\ res' = [op |-> "data", idx |-> i,
                      err |-> IF d.ok THEN "none" ELSE "RuntimeError",
                      val |-> d.chunk.data]
    /\ UNCHANGED <<src, opened, fopen, pc, err, riffsize, chunks, log>>

\* chunk.size
Size(i) ==
    /\ pc = "built"
    /\ res' = [op |-> "size", idx |-> i, err |-> "none",
               val |-> ChunkSize(chunklist[i])]
    /\ UNCHANGED <<src, opened, fopen, pc, err, riffsize, fst, chunklist, chunks, log>>

\* chunk.<name>; a _parse that never returns leaves the caller hung
Attr(i, name) ==
    /\ pc = "built"
    /\ \E g \in {GetAttr(src, riffsize, fst, chunklist[i], name)} :
           /\ fst' = g.st
           /\ chunklist' = [chunklist EXCEPT ![i] = g.chunk]
           /\ res' = [op |-> "attr", idx |-> i, name |-> name, err |-> g.err,
                      val |-> g.val,
                      parsed |-> ~(name \in DOMAIN chunklist[i].dict
                                   \/ chunklist[i].loaded)]
           /\ pc' = IF g.err = "never returns" THEN "hung" ELSE pc
    /\ UNCHANGED <<src, opened, fopen, err, riffsize, chunks, log>>

\* str(chunk)
Str(i) ==
    /\ pc = "built"
    /\ \E s \in {ChunkStr(src, riffsize, fst, chunklist[i])} :
           /\ fst' = s.st
           /\ chunklist' = [chunklist EXCEPT ![i] = s.chunk]
           /\ res' = [op |-> "str", idx |-> i, err |-> s.err, val |-> s.val]
    /\ UNCHANGED <<src, opened, fopen, pc, err, riffsize, chunks, log>>

\* list(wav)
Iter ==
    /\ pc = "built"
    /\ \E r \in {WavFile_iter(src, riffsize, fst, chunklist, chunks)} :
           /\ fst' = r.st
           /\ chunklist' = r.chunklist
           /\ res' = [op |-> "iter", err |-> r.err, val |-> r.out]
           /\ pc' = IF r.err = "never returns" THEN "hung" ELSE pc
    /\ UNCHANGED <<src, opened, fopen, err, riffsize, chunks, log>>

\* str(wav)
WavStr ==
    /\ pc = "built"
    /\ \E s \in {WavFile_str(src, riffsize, fst, chunklist, chunks)} :
           /\ fst' = s.st
           /\ chunklist' = s.chunklist
           /\ res' = [op |-> "wavstr", err |-> s.err, val |-> s.val]
    /\ UNCHANGED <<src, opened, fopen, pc, err, riffsize, chunks, log>>

\* chunk.sample_width of a 'fmt ' chunk
SampleWidth(i) ==
    /\ pc = "built"
    /\ \E g \in {sample_width(src, riffsize, fst, chunklist[i])} :
           /\ fst' = g.st
           /\ chunklist' = [chunklist EXCEPT ![i] = g.chunk]
           /\ res' = [op |-> "sample_width", idx |-> i, err |-> g.err,
                      val |-> g.val]
    /\ UNCHANGED <<src, opened, fopen, pc, err, riffsize, chunks, log>>

\* chunk.frame_size of a 'fmt ' chunk
FrameSize(i) ==
    /\ pc = "built"
    /\ \E g \in {frame_size(src, riffsize, fst, chunklist[i])} :
           /\ fst' = g.st
           /\ chunklist' = [chunklist EXCEPT ![i] = g.chunk]
           /\ res' = [op |-> "frame_size", idx |-> i, err |-> g.err,
                      val |-> g.val]
    /\ UNCHANGED <<src, opened, fopen, pc, err, riffsize, chunks, log>>

\* list(wav.raw_frames()); a generator that never ends leaves the caller
\* hung
RawFrames ==
    /\ pc = "built"
    /\ \E r \in {raw_frames(src, riffsize, fst, chunklist, chunks)} :
           /\ fst' = r.st
           /\ chunklist' = r.chunklist
           /\ res' = [op |-> "raw_frames", err |-> r.err, val |-> r.val]
           /\ pc' = IF r.err = "never returns" THEN "hung" ELSE pc
    /\ UNCHANGED <<src, opened, fopen, err, riffsize, chunks, log>>

\* wav.cue_points
CuePoints ==
    /\ pc = "built"
    /\ \E g \in {cue_points(src, riffsize, fst, chunklist, chunks)} :
           /\ fst' = g.st
           /\ chunklist' = IF T_cue \in DOMAIN chunks
                            THEN [chunklist EXCEPT
                                      ![chunks[T_cue].items[1]] = g.chunk]
                            ELSE chunklist
           /\ res' = [op |-> "cue_points", err |-> g.err, val |-> g.val]
    /\ UNCHANGED <<src, opened, fopen, pc, err, riffsize, chunks, log>>

\* self.file after WavFile.close(): closed when the container opened it
FileAfterClose(i_opened, isopen) == IF i_opened THEN FALSE ELSE isopen

\* wav.close(); the caller uses the container no more
Close ==
    /\ pc \in {"built", "closed"}
    /\ pc' = "closed"
    /\ fopen' = FileAfterClose(opened, fopen)
    /\ res' = [op |-> "close"]
    /\ UNCHANGED <<src, opened, err, riffsize, fst, chunklist, chunks, log>>

\* Leaving "with WavFile(...) as wav:": __exit__ calls close()
Exit ==
    /\ pc = "built"
    /\ pc' = "closed"
    /\ fopen' = FileAfterClose(opened, fopen)
    /\ res' = [op |-> "exit"]
    /\ UNCHANGED <<src, opened, err, riffsize, fst, chunklist, chunks, log>>

\* __del__ = close, run when the interpreter finalizes the object a failed
\* constructor left behind: at a time of its choosing after the exception
\* and its traceback are dropped.
Finalize ==
    /\ pc = "failed"
    /\ res.op # "del"
    /\ fopen' = FileAfterClose(opened, fopen)
    /\ res' = [op |-> "del"]
    /\ UNCHANGED <<src, pc, opened, err, riffsize, fst, chunklist, chunks, log>>

Next ==
    \/ \E bypath \in BOOLEAN : (bypath \/ src \in FileObjects) /\ Open(bypath)
    \/ Close
    \/ Exit
    \/ Finalize
    \/ \E i \in 1..Len(chunklist) : Data(i)
    \/ \E i \in 1..Len(chunklist) : Size(i)
    \/ \E i \in 1..Len(chunklist) :
          \E name \in AttrNames(ChunkClass(chunklist[i].name)) : Attr(i, name)
    \/ \E i \in 1..Len(chunklist) : Str(i)
    \/ \E i \in 1..Len(chunklist) :
          ChunkClass(chunklist[i].name) = "FmtChunk" /\ SampleWidth(i)
    \/ \E i \in 1..Len(chunklist) :
          ChunkClass(chunklist[i].name) = "FmtChunk" /\ FrameSize(i)
    \/ Iter
    \/ WavStr
    \/ RawFrames
    \/ CuePoints

Spec == Init /\ [][Next]_vars

-----------------------------------------------------------------------------
(* What the properties speak of.                                           *)

\* The payload the bytes b hold for the chunk object c of a RIFF chunk of
\* size rs: the bytes from its payload offset, as many as its size field
\* declares and b and the RIFF chunk hold.
PayloadIn(b, rs, c) ==
    Slice(b, 8 + c.offset, Min(8 + c.offset + c.chunksize, 8 + rs))

\* The payload the source holds for the chunk object c.
PayloadOf(c) == PayloadIn(src, riffsize, c)

\* The whole declared payload of c is in the source.
Whole(c) == Len(PayloadOf(c)) = c.chunksize

\* The indices of the chunks tagged t, in arrival order.
Occ(t) == {i \in 1..Len(chunklist) : chunklist[i].name = t}

\* The chunk at index i is a list chunk ('LIST' or 'list') of type INFO.
IsInfoList(i) ==
    /\ chunklist[i].name \in {T_LIST, T_list}
    /\ Slice(PayloadOf(chunklist[i]), 0, 4) = T_INFO

\* The chunk at index i is neither a 'fmt ' chunk nor an INFO list.
IsPlain(i) == chunklist[i].name # T_fmt /\ ~IsInfoList(i)

\* The positions of the sequence out that hold the index i.
Places(out, i) == {k \in 1..Len(out) : out[k] = i}

\* The tags the specification calls singular.
SingularTags == {T_fmt, T_data, T_smpl, T_cue, T_fact, T_inst, T_plst}

\* What decoding the payload of the chunk object c at once would give.
Eager(c) == Parse(ChunkClass(c.name), PayloadOf(c))

\* The tags of the chunk list.
TagsOf(cl) == [i \in 1..Len(cl) |-> cl[i].name]

-----------------------------------------------------------------------------
(* C1 .. C4: canonical order, the required chunks, repeated tags.          *)

\* The iteration can read the type of the 'LIST' chunk at index i: its
\* payload decodes, and it was not loaded by a raw read and left undecoded.
TypeReadable(i) ==
    /\ Eager(chunklist[i]).err = "none"
    /\ ~(chunklist[i].loaded /\ "type_id" \notin DOMAIN chunklist[i].dict)

C2_InfoListsHoisted ==
    (res.op = "iter" /\ res.err = "none") =>
        /\ \A i \in 1..Len(chunklist) :
               IsInfoList(i) => Cardinality(Places(res.val, i)) = 1
        /\ \A j \in 2..Len(res.val) : \A k \in 2..Len(res.val) :
               (j < k /\ IsInfoList(res.val[k]))
                   => (IsInfoList(res.val[j]) /\ res.val[j] < res.val[k])

\* C3: a scan that ended without a 'fmt ' chunk or without a 'data' chunk
\* ended the construction with an exception, and a container that was built
\* has both tags in its lookup, each leading to a chunk of that tag.
C3_MandatoryChunks ==
    pc # "new" =>
        /\ (Occ(T_fmt) = {} \/ Occ(T_data) = {})
               => (pc = "failed" /\ err \in {"ParseError", "Error", "RuntimeError"})
        /\ pc \in {"built", "hung"} =>
               \A t \in {T_fmt, T_data} :
                   /\ t \in DOMAIN chunks
                   /\ chunks[t].kind = "chunk"
                   /\ chunks[t].items[1] \in Occ(t)

\* C3: a source with a 'fmt ' chunk and no 'data' chunk was refused with
\* ParseError.
C3_Witness ==
    /\ pc = "failed"
    /\ err = "ParseError"
    /\ Occ(T_fmt) # {}
    /\ Occ(T_data) = {}

\* C4: in a built container the lookup holds, for every singular tag of the
\* source, the first chunk of that tag in arrival order; the log holds one
\* "ignoring extra" warning per further chunk of the tag; and a typed field
\* read through the lookup has the value the first chunk's payload holds.
C4_FirstWins ==
    pc \in {"built", "hung"} =>
        \A t \in SingularTags :
            Occ(t) # {} =>
                /\ t \in DOMAIN chunks
                /\ chunks[t].kind = "chunk"
                /\ Len(chunks[t].items) = 1
                /\ chunks[t].items[1] \in Occ(t)
                /\ \A i \in Occ(t) : chunks[t].items[1] <= i
                /\ Cardinality({k \in 1..Len(log) :
                                   log[k] = Warning("ignoring extra", t)})
                       = Cardinality(Occ(t)) - 1
                /\ (res.op = "attr" /\ res.err = "none"
                        /\ res.idx = chunks[t].items[1])
                       => res.val = Eager(chunklist[res.idx]).dict[res.name]

\* C4: a source with two 'fmt ' chunks of different contents was built with
\* one warning, and channels read through the lookup is the first chunk's.
C4_Witness ==
    /\ pc = "built"
    /\ Cardinality(Occ(T_fmt)) = 2
    /\ log = <<Warning("ignoring extra", T_fmt)>>
    /\ res.op = "attr"
    /\ res.name = "channels"
    /\ res.err = "none"
    /\ res.idx = chunks[T_fmt].items[1]
    /\ res.val = Field(PayloadOf(chunklist[1]), 2, 2)
    /\ \E i \in Occ(T_fmt) : Field(PayloadOf(chunklist[i]), 2, 2) # res.val

-----------------------------------------------------------------------------
(* C5 .. C10: serialisation, typed decoding, truncated sources.            *)

\* The tags of the chunks cl read from b, each with what its payload decodes
\* to.
TypedValues(b, rs, cl) ==
    {<<cl[i].name, Parse(ChunkClass(cl[i].name), PayloadIn(b, rs, cl[i]))>> :
        i \in 1..Len(cl)}

\* The bytes S build a container w whose serialisation s is S again and
\* whose chunks decode to the values of the container at hand.
Rebuilds(S, w, s) ==
    /\ s.err = "none"
    /\ s.val = S
    /\ TypedValues(S, w.riffsize, w.chunklist)
           = TypedValues(src, riffsize, chunklist)

RebuildsFrom(S, w) ==
    /\ w.pc = "built"
    /\ Rebuilds(S, w, WavFile_str(S, w.riffsize, w.st, w.chunklist, w.chunks))

\* C5: serialising a container built from a well-formed source returns
\* bytes S, and S builds a container that serialises to S byte for byte and
\* has the same typed field values.
C5_SerializeFixedPoint ==
    (res.op = "wavstr" /\ src \in WellFormedFiles) =>
        /\ res.err = "none"
        /\ RebuildsFrom(res.val, WavFile_init(res.val))

\* The chunk as the padding law writes it: tag, size, payload, and one zero
\* byte after a payload of odd length.
Written(name, P) ==
    name \o LE32(Len(P)) \o P \o (IF Len(P) % 2 = 1 THEN <<0>> ELSE <<>>)

\* What the padding law asks of the outcome r of an operation on a chunk
\* tagged name with the payload P.
PaddingLaw(r, name, P) ==
    /\ r.op = "str" => (r.err = "none" /\ r.val = Written(name, P))
    /\ r.op = "data" => (r.err = "none" /\ r.val = P)
    /\ r.op = "size" => r.val = Len(P)

\* C6: serialising a chunk whose payload is all in the source returns tag,
\* 4-byte size and payload, followed by one zero byte exactly when the
\* payload length is odd; the size field, the size the chunk reports and
\* the payload it reports leave the pad byte out.
C6_PaddingLaw ==
    (res.op \in {"str", "data", "size"} /\ Whole(chunklist[res.idx])) =>
        PaddingLaw(res, chunklist[res.idx].name, PayloadOf(chunklist[res.idx]))

\* The 'smpl' payload P declares n >= 0 loops and carries n records.
SmplComplete(P) ==
    /\ Len(P) >= SmplSize
    /\ Field(P, 28, 4) >= 0
    /\ Len(P) = SmplSize + LoopSize * Field(P, 28, 4)

\* The outcome r is the loops of P, record i read at offset 36 + 24 * i.
LoopsDecoded(r, P) ==
    /\ r.err = "none"
    /\ Len(r.val) = Field(P, 28, 4)
    /\ \A k \in 1..Len(r.val) :
           r.val[k] = LoopAt(P, SmplSize + LoopSize * (k - 1))

\* C7: the first request for the loops of a 'smpl' chunk that declares n
\* loops and carries n records returns n records, the i-th (from 0) holding
\* the six values at offset 36 + 24 * i of the payload.
C7_LoopRecords ==
    (res.op = "attr" /\ res.name = "loops" /\ res.parsed
        /\ chunklist[res.idx].name = T_smpl
        /\ SmplComplete(PayloadOf(chunklist[res.idx])))
    => LoopsDecoded(res, PayloadOf(chunklist[res.idx]))

\* The payload P of a chunk tagged name is shorter than its layout: a
\* 'fmt ' below 14 bytes or a PCM 'fmt ' below 16, a 'smpl' below 36 bytes or
\* below 36 + 24 * sample_loops.
ShortPayload(name, P) ==
    \/ /\ name = T_fmt
       /\ \/ Len(P) < FmtSize
          \/ Field(P, 0, 2) = WAVE_FORMAT_PCM /\ Len(P) < FmtSize + 2
    \/ /\ name = T_smpl
       /\ \/ Len(P) < SmplSize
          \/ Len(P) < SmplSize + LoopSize * Field(P, 28, 4)

\* C8: the first request for a typed field of a 'fmt ' or 'smpl' chunk whose
\* payload is shorter than its layout raises ParseError.
C8_ShortPayloadParseError ==
    (res.op = "attr" /\ res.parsed
        /\ ShortPayload(chunklist[res.idx].name, PayloadOf(chunklist[res.idx])))
    => res.err = "ParseError"

\* Where the last chunk of the scan ends in the source, pad byte included.
LastEnd ==
    IF chunklist = <<>>
    THEN 12
    ELSE 8 + chunklist[Len(chunklist)].offset
           + chunklist[Len(chunklist)].chunksize
           + (chunklist[Len(chunklist)].chunksize % 2)

\* The source ends inside the size field that follows a whole tag.
EndsInSizeField == Len(src) - LastEnd \in 4..7

\* The source ends before the declared payload of a chunk.
EndsInPayload ==
    \E i \in 1..Len(chunklist) :
        8 + chunklist[i].offset + chunklist[i].chunksize > Len(src)

\* C9: a source that ends inside a chunk's size field or before the end of
\* a chunk's declared payload is refused with ParseError.
C9_TruncationRefused ==
    (pc # "new" /\ (EndsInSizeField \/ EndsInPayload))
        => (pc = "failed" /\ err = "ParseError")

\* The outcome r of a typed-field request is the value in the decoded
\* payload e, when e was decoded without an exception and has the field.
SameAsEager(r, e) ==
    (e.err = "none" /\ r.name \in DOMAIN e.dict)
        => (r.err = "none" /\ r.val = e.dict[r.name])

\* The payload a chunk holds is the source's.
PayloadsKept ==
    \A i \in 1..Len(chunklist) :
        chunklist[i].loaded => chunklist[i].data = PayloadOf(chunklist[i])

\* The chunk list is in arrival order.
ArrivalOrderKept ==
    \A i \in 1..Len(chunklist) : \A j \in 1..Len(chunklist) :
        i < j => chunklist[i].offset < chunklist[j].offset

\* C10: after any sequence of raw reads, size reads, serialisations and
\* typed-field requests, a typed-field request returns the value decoding
\* the payload at once gives; the payloads and the arrival order stay as
\* they were.
C10_TypedDecodingIndependent ==
    /\ res.op = "attr" => SameAsEager(res, Eager(chunklist[res.idx]))
    /\ PayloadsKept
    /\ ArrivalOrderKept
-----------------------------------------------------------------------------
(* C11 .. C18                                                              *)

\* C11: a file the container opened itself is closed once close() or the
\* with-block has ended, and once the constructor has raised.
C11_SourceReleased ==
    (opened /\ pc \in {"closed", "failed"}) => ~fopen

\* A file the container opened itself is closed after close() and after the
\* with-block; a file the caller handed in stays open.
ClosedByClose ==
    pc = "closed" => (fopen = ~opened)
\* The 'fmt ' chunk object c holds a decoded PCM descriptor.
PcmDecoded(c) ==
    /\ {"format_tag", "channels", "bits_per_sample"} \subseteq DOMAIN c.dict
    /\ c.dict.format_tag = WAVE_FORMAT_PCM

\* frames are the whole frames of fs bytes of the payload P, in order.
FramesCut(frames, P, fs) ==
    /\ Len(frames) = Len(P) \div fs
    /\ \A k \in 1..Len(frames) :
           frames[k] = SubSeq(P, (k - 1) * fs + 1, k * fs)

\* The frames are cut from the payload of the 'data' chunk d by the frame
\* size of the descriptor f.
FramesOf(r, d, f) ==
    /\ r.err = "none"
    /\ (f.channels * ((f.bits_per_sample + 7) \div 8) > 0) =>
           FramesCut(r.val, PayloadOf(d),
                     f.channels * ((f.bits_per_sample + 7) \div 8))

\* C12: raw_frames() of a built container whose 'fmt ' chunk decodes to a
\* PCM descriptor and whose 'data' payload is all in the source ends, and
\* has yielded floor(L / frame_size) slices of the payload, the k-th
\* (from 0) being its bytes k * frame_size .. (k + 1) * frame_size - 1.
C12_RawFrames ==
    (res.op = "raw_frames"
        /\ PcmDecoded(chunklist[chunks[T_fmt].items[1]])
        /\ Whole(chunklist[chunks[T_data].items[1]]))
    => FramesOf(res, chunklist[chunks[T_data].items[1]],
                chunklist[chunks[T_fmt].items[1]].dict)
\* With a positive frame size the frames are those of C12.
RawFramesPositive ==
    (res.op = "raw_frames"
        /\ PcmDecoded(chunklist[chunks[T_fmt].items[1]])
        /\ Whole(chunklist[chunks[T_data].items[1]])
        /\ chunklist[chunks[T_fmt].items[1]].dict.channels > 0)
    => /\ pc = "built"
       /\ FramesOf(res, chunklist[chunks[T_data].items[1]],
                   chunklist[chunks[T_fmt].items[1]].dict)

\* ceil(bits / 8): the least number of bytes that hold bits.
CeilBytes(bits) == CHOOSE w \in 0..bits : 8 * w >= bits /\ 8 * (w - 1) < bits

\* The chunk object c is a 'fmt ' chunk that has been decoded, and its
\* payload decodes without an exception.
FmtDecoded(c) ==
    /\ c.name = T_fmt
    /\ "format_tag" \in DOMAIN c.dict
    /\ Eager(c).err = "none"

\* What sample_width and frame_size of the descriptor f are to give.
WidthLaw(r, f) ==
    IF f.format_tag = WAVE_FORMAT_PCM
    THEN /\ r.err = "none"
         /\ r.op = "sample_width" => r.val = CeilBytes(f.bits_per_sample)
         /\ r.op = "frame_size"
                => r.val = f.channels * CeilBytes(f.bits_per_sample)
    ELSE r.err = "UnsupportedCompressionError"

\* C13: sample_width of a decoded 'fmt ' chunk is ceil(bits_per_sample / 8)
\* and frame_size is channels * sample_width when format_tag is PCM; with
\* any other format_tag both raise UnsupportedCompressionError, the
\* container is built all the same, and format_tag and channels of the
\* chunk are still returned with the values of the payload.
C13_SampleWidth ==
    /\ (res.op \in {"sample_width", "frame_size"}
            /\ FmtDecoded(chunklist[res.idx]))
        => WidthLaw(res, chunklist[res.idx].dict)
    /\ (res.op \in {"sample_width", "frame_size"}
            /\ res.err = "UnsupportedCompressionError")
        => pc = "built"
    /\ (res.op = "attr" /\ res.name \in {"format_tag", "channels"}
            /\ FmtDecoded(chunklist[res.idx])
            /\ chunklist[res.idx].dict.format_tag # WAVE_FORMAT_PCM)
        => (res.err = "none" /\ res.val = Eager(chunklist[res.idx]).dict[res.name])

\* C13: sample_width of an IMA ADPCM 'fmt ' chunk of a built container has
\* raised UnsupportedCompressionError.
C13_Witness ==
    /\ pc = "built"
    /\ res.op = "sample_width"
    /\ res.err = "UnsupportedCompressionError"
    /\ FmtDecoded(chunklist[res.idx])
    /\ chunklist[res.idx].dict.format_tag = 17

\* sample_width of a 12-bit PCM 'fmt ' chunk has been 2.
WidthRoundedUp ==
    /\ res.op = "sample_width"
    /\ res.err = "none"
    /\ chunklist[res.idx].dict.bits_per_sample = 12
    /\ res.val = 2

\* The chunks the lookup holds under the tag t, as a sequence (of one
\* chunk where the lookup holds the chunk object itself).
Retained(t) == IF t \in DOMAIN chunks THEN chunks[t].items ELSE <<>>

\* The lookup holds every chunk tagged t, in arrival order.
AllRetained(t) ==
    /\ {Retained(t)[k] : k \in 1..Len(Retained(t))} = Occ(t)
    /\ \A j \in 1..Len(Retained(t)) : \A k \in 1..Len(Retained(t)) :
           j < k => Retained(t)[j] < Retained(t)[k]

\* C14: in a built container the lookup holds, under every tag of the
\* source outside the singular set ('LIST', 'list', 'wavl' and unknown tags
\* among them), all the chunks of that tag in arrival order.
C14_AllOccurrencesRetained ==
    pc \in {"built", "hung"} =>
        \A i \in 1..Len(chunklist) :
            chunklist[i].name \notin SingularTags
                => AllRetained(chunklist[i].name)

\* The tags for which the code collects a list ('LIST' and the tags outside
\* KNOWN_CHUNKS) keep every chunk in arrival order.
UnknownTagsRetained ==
    pc \in {"built", "hung"} =>
        \A i \in 1..Len(chunklist) :
            chunklist[i].name \notin KNOWN_CHUNKS
                => AllRetained(chunklist[i].name)

\* The last operation was a typed-field request that ran the decoder of the
\* chunk and ended with a decode error.
DecodeFailed ==
    /\ res.op = "attr"
    /\ res.parsed
    /\ res.err \in {"ParseError", "struct.error"}

\* The two outcomes are the same return value or the same exception.
SameOutcome(now, then) == now.err = then.err /\ now.val = then.val

\* The two raw reads gave the same.
SameData(now, then) == now.ok = then.ok /\ now.chunk.data = then.chunk.data

\* The typed fields and the raw data of the chunk at index k are what the
\* container w, newly built from the same source, gives.
ChunkUnchanged(k, w) ==
    /\ \A name \in AttrNames(ChunkClass(chunklist[k].name)) :
           SameOutcome(GetAttr(src, riffsize, fst, chunklist[k], name),
                       GetAttr(src, w.riffsize, w.st, w.chunklist[k], name))
    /\ SameData(ChunkData(src, riffsize, fst, chunklist[k]),
                ChunkData(src, w.riffsize, w.st, w.chunklist[k]))

\* The iteration it ends without an exception, with the chunks the
\* iteration then of a newly built container yields, when that one ends.
IterationUnchanged(it, then) ==
    /\ it.err = "none"
    /\ then.err = "none" => it.out = then.out

\* After the failed request every other chunk and the iteration are as in
\* the container w newly built from the same source.
Confined(w) ==
    /\ \A k \in 1..Len(chunklist) : k # res.idx => ChunkUnchanged(k, w)
    /\ IterationUnchanged(
           WavFile_iter(src, riffsize, fst, chunklist, chunks),
           WavFile_iter(src, w.riffsize, w.st, w.chunklist, w.chunks))

\* C15: once a typed-field request on one chunk has failed with a decode
\* error, no other chunk having been read, the typed fields and the raw
\* data of every other chunk are what they are without the failed request,
\* and iterating the container ends without an exception and yields the
\* same chunks.
C15_DecodeErrorConfined ==
    (pc = "built" /\ DecodeFailed
        /\ \A k \in 1..Len(chunklist) : k # res.idx => ~chunklist[k].loaded)
    => Confined(WavFile_init(src))

\* After the failed request the typed fields and the raw data of every
\* other chunk are what they are without it.
OtherChunksUnchanged ==
    (pc = "built" /\ DecodeFailed
        /\ \A k \in 1..Len(chunklist) : k # res.idx => ~chunklist[k].loaded)
    => \A k \in 1..Len(chunklist) :
           k # res.idx => ChunkUnchanged(k, WavFile_init(src))

\* The 'cue ' payload P declares n >= 0 cue points and carries n records of
\* 24 bytes.
CueComplete(P) ==
    /\ Len(P) >= CueSize
    /\ Field(P, 0, 4) >= 0
    /\ Len(P) = CueSize + 24 * Field(P, 0, 4)

\* The cue point record at offset off of the payload P.
CueRecord(P, off) ==
    [id            |-> Field(P, off, 4),
     position      |-> Field(P, off + 4, 4),
     data_chunk_id |-> SubSeq(P, off + 9, off + 12),
     chunk_start   |-> Field(P, off + 12, 4),
     block_start   |-> Field(P, off + 16, 4),
     sample_offset |-> Field(P, off + 20, 4)]

\* The outcome r is the cue points of the payload P, in order.
CuesDecoded(r, P) ==
    /\ r.err = "none"
    /\ Len(r.val) = Field(P, 0, 4)
    /\ \A k \in 1..Len(r.val) : r.val[k] = CueRecord(P, CueSize + 24 * (k - 1))

\* C16: the first request for the cue points of a 'cue ' chunk that
\* declares n cue points and carries n records returns n records with the
\* fields id, position, data_chunk_id, chunk_start, block_start and
\* sample_offset of the payload, in order; the container's cue_points
\* returns the records of the 'cue ' chunk of the lookup, and the empty
\* sequence when the source has no 'cue ' chunk.
C16_CuePoints ==
    /\ (res.op = "attr" /\ res.name = "cue_points" /\ res.parsed
            /\ chunklist[res.idx].name = T_cue
            /\ CueComplete(PayloadOf(chunklist[res.idx])))
        => CuesDecoded(res, PayloadOf(chunklist[res.idx]))
    /\ (res.op = "cue_points" /\ Occ(T_cue) = {})
        => (res.err = "none" /\ res.val = <<>>)
    /\ (res.op = "cue_points" /\ Occ(T_cue) # {}
            /\ CueComplete(PayloadOf(chunklist[chunks[T_cue].items[1]])))
        => CuesDecoded(res, PayloadOf(chunklist[chunks[T_cue].items[1]]))

\* Without a 'cue ' chunk the container's cue_points is the empty sequence.
NoCueNoPoints ==
    (res.op = "cue_points" /\ Occ(T_cue) = {})
        => (res.err = "none" /\ res.val = <<>>)

\* The positions of the sequence out that hold a chunk of cl tagged t.
PlacesOfTag(out, cl, t) == {k \in 1..Len(out) : cl[out[k]].name = t}

\* The sequence out of indices into cl holds at most one chunk of each
\* singular tag.
SingularOnce(out, cl) ==
    \A t \in SingularTags : Cardinality(PlacesOfTag(out, cl, t)) <= 1

\* The chunks of a singular tag in out are first occurrences of their tag.
FirstOccurrences(out) ==
    \A k \in 1..Len(out) :
        chunklist[out[k]].name \in SingularTags
            => \A i \in Occ(chunklist[out[k]].name) : out[k] <= i

\* The chunks of the container w, in the order of its byte stream.
StreamChunks(w) == [k \in 1..Len(w.chunklist) |-> k]

\* The byte stream w was scanned from holds each singular tag at most once.
StreamSingularOnce(w) == SingularOnce(StreamChunks(w), w.chunklist)

\* C17: the chunks an iteration yields, and the chunks of the byte stream a
\* serialisation returns, hold each singular tag at most once, and the
\* chunk yielded for a singular tag is the first of that tag in the source.
C17_DuplicatesDroppedFromOutput ==
    /\ res.op = "iter" =>
           (SingularOnce(res.val, chunklist) /\ FirstOccurrences(res.val))
    /\ (res.op = "wavstr" /\ res.err = "none") =>
           StreamSingularOnce(WavFile_init(res.val))

\* Of the 'fmt ' chunks an iteration yields the first and no other.
FmtYieldedOnce ==
    res.op = "iter" =>
        /\ Cardinality(PlacesOfTag(res.val, chunklist, T_fmt)) = 1
        /\ \A k \in PlacesOfTag(res.val, chunklist, T_fmt) :
               \A i \in Occ(T_fmt) : res.val[k] <= i

\* The last operation decoded, or may have decoded, a list chunk: a typed
\* field of a 'LIST' or 'list' chunk, or an iteration.
ListDecoding ==
    \/ res.op = "attr" /\ ChunkClass(chunklist[res.idx].name) = "ListChunk"
    \/ res.op = "iter"

\* C18: a request that decodes the payload of a 'LIST' or 'list' chunk
\* returns, with the sub-chunk list or with a decode error, whatever the
\* size fields of the sub-chunks hold.
C18_ListDecodingTerminates ==
    ListDecoding => (pc # "hung" /\ res.err # "never returns")

\* The size field of the first sub-chunk of the list payload P is negative.
NegativeSubsize(P) == Len(P) >= 12 /\ Field(P, 8, 4) < 0

\* The scan never returns only on a negative sub-chunk size.
HangsOnNegativeSize ==
    (ListDecoding /\ pc = "hung") =>
        \E i \in 1..Len(chunklist) :
            /\ ChunkClass(chunklist[i].name) = "ListChunk"
            /\ NegativeSubsize(PayloadOf(chunklist[i]))

=============================================================================
